---- MODULE Spec2Model ----
(***************************************************************************)
(* Model of the NBA orchestrator (coordinator_full.py): a static tree of   *)
(* ten leaf agents in three clusters, the session state the leaves write   *)
(* through their output_key, the human approval tool of agent 8 and the    *)
(* entry point main().                                                     *)
(*                                                                         *)
(* The agents are LLM calls: what a leaf produces is opaque, so a leaf is  *)
(* modelled by its begin, its end (which stores the output under its       *)
(* output_key) and its fatal failure.  SequentialAgent, ParallelAgent and  *)
(* InMemoryRunner are library classes; they are modelled as the source     *)
(* uses and documents them: sequential clusters run their sub_agents in    *)
(* list order, the parallel cluster runs its sub_agents concurrently on    *)
(* the one shared session and joins when all have finished, and the        *)
(* approval tool pauses the run until the human has answered.              *)
(***************************************************************************)
EXTENDS Integers, Sequences, FiniteSets, TLC

\* Largest number of calls of request_human_approval explored in one run.
MaxCalls == 3

(***************************************************************************)
(* The static stage tree                                                   *)
(***************************************************************************)
cluster_1_discovery ==
    <<"ProxyCustomerAgent", "CustomerProfilerAgent", "PatternMatcherAgent", "ActionGeneratorAgent">>

cluster_2_validation ==
    <<"ValidatorAgent", "ScorerAgent">>

cluster_3_execution ==
    <<"TimingAgent", "ContentAgent", "HumanApprovalAgent", "ResultsTrackerAgent">>

nba_orchestrator ==
    <<"DiscoveryCluster", "ValidationCluster", "ExecutionCluster">>

sub_agents(c) ==
    CASE c = "DiscoveryCluster" -> cluster_1_discovery
      [] c = "ValidationCluster" -> cluster_2_validation
      [] c = "ExecutionCluster" -> cluster_3_execution

\* SequentialAgent or ParallelAgent, as each cluster is constructed.
Kind(c) ==
    CASE c = "DiscoveryCluster" -> "Sequential"
      [] c = "ValidationCluster" -> "Parallel"
      [] c = "ExecutionCluster" -> "Sequential"
      [] c = "NbaOrchestrator" -> "Sequential"

Range(s) == {s[i] : i \in 1..Len(s)}

Clusters == Range(nba_orchestrator)

Leaves == UNION {Range(sub_agents(c)) : c \in Clusters}

IndexOf(s, x) == CHOOSE i \in 1..Len(s) : s[i] = x

ClusterOf(a) == CHOOSE c \in Clusters : a \in Range(sub_agents(c))

\* Variant: the scorer is given the validator's key.
output_key_SharedKey(a) ==
    CASE a = "ProxyCustomerAgent" -> "generated_customer_profile"
      [] a = "CustomerProfilerAgent" -> "customer_analysis"
      [] a = "PatternMatcherAgent" -> "historical_match"
      [] a = "ActionGeneratorAgent" -> "generated_actions"
      [] a = "ValidatorAgent" -> "validation_results"
      [] a = "ScorerAgent" -> "validation_results"
      [] a = "TimingAgent" -> "optimal_timing"
      [] a = "ContentAgent" -> "marketing_content"
      [] a = "HumanApprovalAgent" -> "approval_status"
      [] a = "ResultsTrackerAgent" -> "tracking_result"

\* The session state key each agent stores its final answer under.
output_key(a) ==
    CASE a = "ProxyCustomerAgent" -> "generated_customer_profile"
      [] a = "CustomerProfilerAgent" -> "customer_analysis"
      [] a = "PatternMatcherAgent" -> "historical_match"
      [] a = "ActionGeneratorAgent" -> "generated_actions"
      [] a = "ValidatorAgent" -> "validation_results"
      [] a = "ScorerAgent" -> "scored_actions"
      [] a = "TimingAgent" -> "optimal_timing"
      [] a = "ContentAgent" -> "marketing_content"
      [] a = "HumanApprovalAgent" -> "approval_status"
      [] a = "ResultsTrackerAgent" -> "tracking_result"

Keys == {output_key(a) : a \in Leaves}

\* Causes of a fatal failure of a leaf's model call: an HTTP status outside
\* http_status_codes, or a status of the list still failing at the last attempt.
Causes == {"non_retryable", "retries_exhausted"}

VARIABLES
    run,                \* where main() is: not_started, running, suspended, complete, failed, lost
    status,             \* per leaf: idle, running, done, failed, cancelled
    state,              \* session.state: output_key -> stored value, "unset" if absent
    events,             \* session.events: final answers, each with author, branch and key
    observed,           \* per leaf: the keys of the events its model request contained
    tool_confirmation,  \* tool_context.tool_confirmation: <<>> is None, <<b>> has confirmed = b
    requested,          \* number of request_confirmation calls made
    gate_results,       \* history: every result returned by request_human_approval
    decisions,          \* history: the answers the human gave, each with the number of calls before it
    report,             \* what main() printed at the end of the run
    failure,            \* history: the leaf that raised and the cause it raised
    historical_actions, \* data/historical_actions.json
    trace,              \* history: begin and end of every leaf, in order
    retry,              \* one model request under retry_options: statuses received, waits made, outcome
    actions_file,       \* data/historical_actions.json on disk: valid, missing or invalid JSON
    historical_customer_data, \* data/historical_customer_data.json
    caller,             \* per concurrent run: where its record_result call is, and its locals
    queried,            \* the last get_action_success_rate call and what it returned
    appended,           \* history: the stored log followed by every record whose call returned success
    called              \* the last call of one of the other tools: its arguments and what it returned

vars == <<run, status, state, events, observed, tool_confirmation, requested,
          gate_results, decisions, report, failure, historical_actions, trace,
          retry, actions_file, historical_customer_data, caller, queried, appended,
          called>>

\* The variables of the pipeline run.
run_vars == <<run, status, state, events, observed, tool_confirmation, requested,
              gate_results, decisions, report, failure, trace>>

\* The variables of the retried model request and of the tools' data files.
tool_vars == <<retry, actions_file, historical_customer_data, caller, queried, appended,
               called>>

(***************************************************************************)
(* retry_options of every agent's model                                    *)
(***************************************************************************)
attempts == 5

exp_base == 7

initial_delay == 1

http_status_codes == {429, 500, 503, 504}

\* The HTTP statuses a model call is answered with in this model.
Responses == {200, 400, 403} \cup http_status_codes

RetryStart == [codes |-> <<>>, delays |-> <<>>, outcome |-> "calling"]

(***************************************************************************)
(* The tools' files and callers before any tool has run                    *)
(***************************************************************************)
\* The concurrent pipeline runs whose trackers share the data directory.
Procs == {"run_1", "run_2"}

NoRecord == [timestamp |-> 0, customer_id |-> "none", customer_segment |-> "none",
             scenario_type |-> "none", action_type |-> "none", channel |-> "none",
             estimated_cost |-> 0, predicted_roi |-> 0,
             action_status |-> "none", approved_by |-> "none"]

NoArgs == [customer_id |-> "none", action_type |-> "none", channel |-> "none",
           estimated_cost |-> 0, predicted_roi |-> 0, action_status |-> "none",
           segment |-> "none", scenario |-> "none"]

NoResult == [status |-> "none", message |-> <<>>, total_historical_actions |-> 0]

CallerIdle == [pc |-> "idle", calls |-> 0, all_actions |-> <<>>, action_record |-> NoRecord,
               result |-> NoResult, raised |-> "none",
               args |-> NoArgs, now |-> 0, before |-> [file |-> "missing", log |-> <<>>]]

NotQueried == [action_type |-> <<>>, segment |-> "", tool |-> "none", rate |-> -1,
               error |-> "none", sample_size |-> <<>>]

NoDataFile == [file |-> "missing", customer_segments |-> <<>>]

NotCalled == [tool |-> "none"]

Init ==
    /\ run = "not_started"
    /\ status = [a \in Leaves |-> "idle"]
    /\ state = [k \in Keys |-> "unset"]
    /\ events = <<>>
    /\ observed = [a \in Leaves |-> {}]
    /\ tool_confirmation = <<>>
    /\ requested = 0
    /\ gate_results = <<>>
    /\ decisions = <<>>
    /\ report = [outcome |-> "none", cause |-> "none"]
    /\ failure = [cause |-> "none", stage |-> "none"]
    /\ historical_actions = <<>>
    /\ trace = <<>>
    /\ retry = RetryStart
    /\ actions_file = "valid"
    /\ historical_customer_data = NoDataFile
    /\ caller = [p \in Procs |-> CallerIdle]
    /\ queried = NotQueried
    /\ appended = <<>>
    /\ called = NotCalled

(***************************************************************************)
(* The engine: which leaf may begin                                        *)
(***************************************************************************)
\* Variant: a cluster counts as finished as soon as one sub-agent has.
NodeDone_FirstFinished(c) ==
    \E a \in Range(sub_agents(c)) : status[a] = "done"

\* A cluster has finished when every one of its sub_agents has: for the
\* ParallelAgent this is the join.
NodeDone(c) ==
    \A a \in Range(sub_agents(c)) : status[a] = "done"

\* Variant: the next sub-agent is started once the earlier ones have started.
SiblingsReady_Started(c, k) ==
    Kind(c) = "Sequential" => \A m \in 1..(k - 1) : status[sub_agents(c)[m]] # "idle"

\* SequentialAgent runs sub_agents[k] only after sub_agents[1..k-1] have
\* finished; ParallelAgent starts all of its sub_agents at once.
SiblingsReady(c, k) ==
    Kind(c) = "Sequential" => \A m \in 1..(k - 1) : status[sub_agents(c)[m]] = "done"

\* The orchestrator is itself a SequentialAgent over the three clusters.
ClusterReady(c) ==
    \A j \in 1..(IndexOf(nba_orchestrator, c) - 1) : NodeDone(nba_orchestrator[j])

CanBegin(a) ==
    /\ run = "running"
    /\ status[a] = "idle"
    /\ ClusterReady(ClusterOf(a))
    /\ SiblingsReady(ClusterOf(a), IndexOf(sub_agents(ClusterOf(a)), a))

(***************************************************************************)
(* Conversation history seen by a leaf                                     *)
(***************************************************************************)
\* Sub-agents of the ParallelAgent run on a branch of their own; the
\* sequential clusters run on the empty branch.
Branch(a) ==
    IF Kind(ClusterOf(a)) = "Parallel" THEN <<ClusterOf(a), a>> ELSE <<>>

IsPrefix(p, q) ==
    /\ Len(p) <= Len(q)
    /\ \A i \in 1..Len(p) : p[i] = q[i]

\* Variant: no branch filtering, every event is in every reader's history.
IsVisible_NoBranches(ev, branch) ==
    TRUE

\* An event belongs to a reader's history when either has no branch or the
\* event's branch is a prefix of the reader's.
IsVisible(ev, branch) ==
    \/ branch = <<>>
    \/ ev.branch = <<>>
    \/ IsPrefix(ev.branch, branch)

VisibleKeys(a) ==
    {events[i].key : i \in {j \in 1..Len(events) : IsVisible(events[j], Branch(a))}}

(***************************************************************************)
(* Agent 8: the approval tool                                              *)
(***************************************************************************)
\* Variant: the confirmed flag is not looked at, any answer counts as approval.
request_human_approval_AnyAnswerApproves(tc) ==
    IF tc = <<>>
    THEN [status |-> "pending", request_confirmation |-> TRUE]
    ELSE [status |-> "approved", request_confirmation |-> FALSE]

\* request_human_approval: the returned status, and whether the call made a
\* request_confirmation.
request_human_approval(tc) ==
    IF tc = <<>>
    THEN [status |-> "pending", request_confirmation |-> TRUE]
    ELSE IF tc[1]
         THEN [status |-> "approved", request_confirmation |-> FALSE]
         ELSE [status |-> "rejected", request_confirmation |-> FALSE]

Last(s) == s[Len(s)]

(***************************************************************************)
(* Actions                                                                 *)
(***************************************************************************)
\* main(): runner.run_debug("start")
Start ==
    /\ run = "not_started"
    /\ run' = "running"
    /\ UNCHANGED <<status, state, events, observed, tool_confirmation, requested,
                   gate_results, decisions, report, failure, historical_actions, trace>>
    /\ UNCHANGED tool_vars

\* A leaf agent starts: its model request is built from the history visible
\* on its branch.
BeginLeaf(a) ==
    /\ CanBegin(a)
    /\ status' = [status EXCEPT ![a] = "running"]
    /\ observed' = [observed EXCEPT ![a] = VisibleKeys(a)]
    /\ trace' = Append(trace, <<"begin", a>>)
    /\ UNCHANGED <<run, state, events, tool_confirmation, requested,
                   gate_results, decisions, report, failure, historical_actions>>
    /\ UNCHANGED tool_vars

\* What a finished leaf leaves in the session: its final answer as an event
\* and, through output_key, as a state entry.
Store(a, value) ==
    /\ status' = [status EXCEPT ![a] = "done"]
    /\ state' = [state EXCEPT ![output_key(a)] = value]
    /\ events' = Append(events, [branch |-> Branch(a), key |-> output_key(a), author |-> a])
    /\ trace' = Append(trace, <<"end", a>>)

\* A leaf without a gate finishes.
EndLeaf(a) ==
    /\ run = "running"
    /\ status[a] = "running"
    /\ a \notin {"HumanApprovalAgent", "ResultsTrackerAgent"}
    /\ Store(a, "written")
    /\ UNCHANGED <<run, observed, tool_confirmation, requested, gate_results,
                   decisions, report, failure, historical_actions>>
    /\ UNCHANGED tool_vars

\* Variant: the failure is swallowed and the pipeline goes on.
FailLeaf_Swallowed(a, cause) ==
    /\ run = "running"
    /\ status[a] = "running"
    /\ status' = [status EXCEPT ![a] = "done"]
    /\ failure' = [cause |-> cause, stage |-> a]
    /\ UNCHANGED <<run, report, state, events, observed, tool_confirmation, requested,
                   gate_results, decisions, historical_actions, trace>>
    /\ UNCHANGED tool_vars

\* The model call of a leaf fails for good: the exception leaves run_debug,
\* the other branch of a parallel cluster is cancelled, and main() prints it.
FailLeaf(a, cause) ==
    /\ run = "running"
    /\ status[a] = "running"
    /\ status' = [b \in Leaves |->
                    IF b = a THEN "failed"
                    ELSE IF status[b] = "running" THEN "cancelled"
                    ELSE status[b]]
    /\ run' = "failed"
    /\ report' = [outcome |-> "ERROR", cause |-> cause]
    /\ failure' = [cause |-> cause, stage |-> a]
    /\ UNCHANGED <<state, events, observed, tool_confirmation, requested,
                   gate_results, decisions, historical_actions, trace>>
    /\ UNCHANGED tool_vars

\* Variant: a pending result does not pause the run.
CallApprovalTool_NoPause ==
    /\ run = "running"
    /\ status["HumanApprovalAgent"] = "running"
    /\ Len(gate_results) < MaxCalls
    /\ LET r == request_human_approval(tool_confirmation) IN
        /\ gate_results' = Append(gate_results, r)
        /\ requested' = IF r.request_confirmation THEN requested + 1 ELSE requested
    /\ UNCHANGED <<run, status, state, events, observed, tool_confirmation, decisions,
                   report, failure, historical_actions, trace>>
    /\ UNCHANGED tool_vars

\* Agent 8 calls its tool.  A pending result pauses the run.
CallApprovalTool ==
    /\ run = "running"
    /\ status["HumanApprovalAgent"] = "running"
    /\ Len(gate_results) < MaxCalls
    /\ LET r == request_human_approval(tool_confirmation) IN
        /\ gate_results' = Append(gate_results, r)
        /\ requested' = IF r.request_confirmation THEN requested + 1 ELSE requested
        /\ run' = IF r.status = "pending" THEN "suspended" ELSE run
    /\ UNCHANGED <<status, state, events, observed, tool_confirmation, decisions,
                   report, failure, historical_actions, trace>>
    /\ UNCHANGED tool_vars

\* The human answers the confirmation request, once.
Decide(confirmed) ==
    /\ requested > 0
    /\ tool_confirmation = <<>>
    /\ run \in {"running", "suspended"}
    /\ tool_confirmation' = <<confirmed>>
    /\ decisions' = Append(decisions, [confirmed |-> confirmed, after_calls |-> Len(gate_results)])
    /\ UNCHANGED <<run, status, state, events, observed, requested,
                   gate_results, report, failure, historical_actions, trace>>
    /\ UNCHANGED tool_vars

\* Variant: the run is started again from the root of the tree.
Resume_FromRoot ==
    /\ run = "suspended"
    /\ run' = "running"
    /\ status' = [a \in Leaves |-> "idle"]
    /\ UNCHANGED <<state, events, observed, tool_confirmation, requested,
                   gate_results, decisions, report, failure, historical_actions, trace>>
    /\ UNCHANGED tool_vars

\* The paused run re-enters agent 8, which calls its tool again; the answer
\* may or may not have arrived.
Resume ==
    /\ run = "suspended"
    /\ run' = "running"
    /\ UNCHANGED <<status, state, events, observed, tool_confirmation, requested,
                   gate_results, decisions, report, failure, historical_actions, trace>>
    /\ UNCHANGED tool_vars

\* Agent 8 finishes once its tool has returned the decision.
EndApproval ==
    /\ run = "running"
    /\ status["HumanApprovalAgent"] = "running"
    /\ gate_results # <<>>
    /\ Last(gate_results).status \in {"approved", "rejected"}
    /\ Store("HumanApprovalAgent",
             IF Last(gate_results).status = "approved" THEN "APPROVED" ELSE "REJECTED")
    /\ UNCHANGED <<run, observed, tool_confirmation, requested, gate_results,
                   decisions, report, failure, historical_actions>>
    /\ UNCHANGED tool_vars

\* Variant: the tracker records every action as scheduled.
EndTracker_AlwaysScheduled ==
    /\ run = "running"
    /\ status["ResultsTrackerAgent"] = "running"
    /\ historical_actions' = Append(historical_actions, [action_status |-> "scheduled"])
    /\ Store("ResultsTrackerAgent", "written")
    /\ UNCHANGED <<run, observed, tool_confirmation, requested, gate_results,
                   decisions, report, failure>>
    /\ UNCHANGED tool_vars

\* Agent 9 records the outcome with record_result and finishes.
EndTracker ==
    /\ run = "running"
    /\ status["ResultsTrackerAgent"] = "running"
    /\ historical_actions' = Append(historical_actions,
          [action_status |-> IF state["approval_status"] = "APPROVED"
                             THEN "scheduled" ELSE "cancelled"])
    /\ Store("ResultsTrackerAgent", "written")
    /\ UNCHANGED <<run, observed, tool_confirmation, requested, gate_results,
                   decisions, report, failure>>
    /\ UNCHANGED tool_vars

\* Variant: the success banner is printed whenever run_debug has returned,
\* also when it returned because the run is paused.
Finish_WhenReturned ==
    /\ run \in {"running", "suspended"}
    /\ run = "running" => \A c \in Clusters : NodeDone(c)
    /\ run' = "complete"
    /\ report' = [outcome |-> "SUCCESS", cause |-> "none"]
    /\ UNCHANGED <<status, state, events, observed, tool_confirmation, requested,
                   gate_results, decisions, failure, historical_actions, trace>>
    /\ UNCHANGED tool_vars

\* run_debug returns and main() prints the success banner.
Finish ==
    /\ run = "running"
    /\ \A c \in Clusters : NodeDone(c)
    /\ run' = "complete"
    /\ report' = [outcome |-> "SUCCESS", cause |-> "none"]
    /\ UNCHANGED <<status, state, events, observed, tool_confirmation, requested,
                   gate_results, decisions, failure, historical_actions, trace>>
    /\ UNCHANGED tool_vars

\* The process stops and starts again while a run is in flight: the runner
\* and its in-memory session are gone, the file on disk and the human's
\* side of the approval channel are not.
ProcessRestart ==
    /\ run \in {"running", "suspended"}
    /\ run' = "lost"
    /\ status' = [a \in Leaves |-> "idle"]
    /\ state' = [k \in Keys |-> "unset"]
    /\ events' = <<>>
    /\ observed' = [a \in Leaves |-> {}]
    /\ UNCHANGED <<tool_confirmation, requested, gate_results, decisions, report, failure,
                   historical_actions, trace>>
    /\ UNCHANGED tool_vars

Next ==
    \/ Start
    \/ \E a \in Leaves : BeginLeaf(a)
    \/ \E a \in Leaves : EndLeaf(a)
    \/ \E a \in Leaves, cause \in Causes : FailLeaf(a, cause)
    \/ CallApprovalTool
    \/ \E confirmed \in BOOLEAN : Decide(confirmed)
    \/ Resume
    \/ EndApproval
    \/ EndTracker
    \/ Finish
    \/ ProcessRestart

Spec == Init /\ [][Next]_vars

\* The run while every model call is answered: no leaf fails for good.  The
\* process may still stop while a run is in flight.
LiveNext ==
    \/ Start
    \/ \E a \in Leaves : BeginLeaf(a)
    \/ \E a \in Leaves : EndLeaf(a)
    \/ CallApprovalTool
    \/ \E confirmed \in BOOLEAN : Decide(confirmed)
    \/ Resume
    \/ EndApproval
    \/ EndTracker
    \/ Finish
    \/ ProcessRestart

\* The engine takes every step it can take, the approval channel delivers
\* the decision it was asked for, and a paused run is entered again.  The
\* process stopping is not something that must happen.
Fairness ==
    /\ WF_vars(Start)
    /\ WF_vars(\E a \in Leaves : BeginLeaf(a))
    /\ WF_vars(\E a \in Leaves : EndLeaf(a))
    /\ WF_vars(CallApprovalTool)
    /\ WF_vars(\E confirmed \in BOOLEAN : Decide(confirmed))
    /\ WF_vars(Resume)
    /\ WF_vars(EndApproval)
    /\ WF_vars(EndTracker)
    /\ WF_vars(Finish)

LiveSpec == Init /\ [][LiveNext]_vars /\ Fairness

(***************************************************************************)
(* The retried model request                                               *)
(***************************************************************************)
\* Variant: attempts counts the retries, not the calls.
ShouldRetry_CountsRetries(code, calls_made) ==
    /\ code \in http_status_codes
    /\ calls_made <= attempts

\* A failed call is repeated when its status is in http_status_codes and
\* fewer than attempts calls have been made, the first one included.
ShouldRetry(code, calls_made) ==
    /\ code \in http_status_codes
    /\ calls_made < attempts

\* Variant: the base, not the initial delay, is waited before the first retry.
exp_base_power_Shifted(n) ==
    exp_base ^ n

exp_base_power(n) ==
    exp_base ^ (n - 1)

\* The wait before retry n: initial_delay at first, multiplied by exp_base
\* for every further retry.
Delay(n) ==
    initial_delay * exp_base_power(n)

\* One call of the model is answered with an HTTP status.
RetryCall(code) ==
    /\ retry.outcome = "calling"
    /\ LET made == Len(retry.codes) + 1 IN
         retry' = [codes |-> Append(retry.codes, code),
                   delays |-> IF code # 200 /\ ShouldRetry(code, made)
                              THEN Append(retry.delays, Delay(made))
                              ELSE retry.delays,
                   outcome |-> IF code = 200 THEN "ok"
                               ELSE IF ShouldRetry(code, made) THEN "calling"
                               ELSE "fatal"]
    /\ UNCHANGED <<actions_file, historical_customer_data, caller, queried, appended, called>>
    /\ UNCHANGED <<historical_actions, run_vars>>

RetryInit ==
    /\ Init

RetryNext ==
    \E code \in Responses : RetryCall(code)

RetrySpec == RetryInit /\ [][RetryNext]_vars

(***************************************************************************)
(* record_result: the tracker's load, append and save of the action log    *)
(***************************************************************************)
\* record_result calls made in all, by both runs together.
MaxRecords == 3

\* The customer each run's proxy agent has generated.
CustomerOf(p) == IF p = "run_1" THEN "CUST001" ELSE "CUST002"

Segments == {"vip_customers", "repeat_buyers"}

ActionStatuses == {"scheduled", "cancelled"}

\* What a file operation raises; "none" when it succeeds.
IOErrors == {"none", "OSError"}

\* The number of record_result calls begun so far; also the clock that
\* datetime.now() reads.
Calls == caller["run_1"].calls + caller["run_2"].calls

\* action_status.upper()
Upper(action_status) ==
    CASE action_status = "scheduled" -> "SCHEDULED"
      [] action_status = "cancelled" -> "CANCELLED"
      [] OTHER -> action_status

\* The arguments of a run's record_result call: the customer and the action its
\* agents have settled on, with the segment and the status given.  Costs are
\* in cents.
Args(p, segment, action_status) ==
    IF p = "run_1"
    THEN [customer_id |-> CustomerOf(p), action_type |-> "email_discount",
          channel |-> "email", estimated_cost |-> 5, predicted_roi |-> 8,
          action_status |-> action_status, segment |-> segment, scenario |-> "general"]
    ELSE [customer_id |-> CustomerOf(p), action_type |-> "sms_reminder",
          channel |-> "sms", estimated_cost |-> 15, predicted_roi |-> 6,
          action_status |-> action_status, segment |-> segment, scenario |-> "cart_abandonment"]

\* Variant: every record is marked as approved by the human.
action_record_AlwaysHuman(args, now) ==
    [timestamp |-> now,
     customer_id |-> args.customer_id,
     customer_segment |-> args.segment,
     scenario_type |-> args.scenario,
     action_type |-> args.action_type,
     channel |-> args.channel,
     estimated_cost |-> args.estimated_cost,
     predicted_roi |-> args.predicted_roi,
     action_status |-> args.action_status,
     approved_by |-> "human"]

action_record(args, now) ==
    [timestamp |-> now,
     customer_id |-> args.customer_id,
     customer_segment |-> args.segment,
     scenario_type |-> args.scenario,
     action_type |-> args.action_type,
     channel |-> args.channel,
     estimated_cost |-> args.estimated_cost,
     predicted_roi |-> args.predicted_roi,
     action_status |-> args.action_status,
     approved_by |-> IF args.action_status = "scheduled" THEN "human" ELSE "rejected"]

\* Variant: the handler reports success whatever was raised.
except_result_Silent(e) ==
    [status |-> "success", message |-> <<"Action recorded as ", e>>,
     total_historical_actions |-> 0]

\* The except branch: the result returned when anything in the try block raised.
except_result(e) ==
    [status |-> "error", message |-> <<"Failed to record action: ", e>>,
     total_historical_actions |-> 0]

success_result(rec, all_actions) ==
    [status |-> "success", message |-> <<"Action recorded as ", Upper(rec.action_status)>>,
     total_historical_actions |-> Len(all_actions)]

\* The call returns result res, having raised e ("none" if nothing was raised).
Return(p, rec, res, e) ==
    caller' = [caller EXCEPT ![p] = [pc |-> "idle", calls |-> @.calls, all_actions |-> <<>>,
                                     action_record |-> rec, result |-> res, raised |-> e,
                                     args |-> @.args, now |-> @.now, before |-> @.before]]

\* Lines 39-64: build the record, read the stored list if the file exists,
\* append the record to the list in memory.  Reading a file that is not
\* valid JSON raises, and so may the read itself.
RecordLoad(p, args, e) ==
    /\ caller[p].pc = "idle"
    /\ Calls < MaxRecords
    /\ LET rec == action_record(args, Calls + 1)
           err == IF actions_file = "missing" THEN "none"
                  ELSE IF e # "none" THEN e
                  ELSE IF actions_file = "invalid" THEN "JSONDecodeError"
                  ELSE "none"
           counted == [caller EXCEPT ![p].calls = @ + 1, ![p].args = args,
                                     ![p].now = Calls + 1,
                                     ![p].before = [file |-> actions_file,
                                                    log |-> historical_actions]]
       IN  IF err # "none"
           THEN caller' = [counted EXCEPT ![p] = [@ EXCEPT !.pc = "idle", !.all_actions = <<>>,
                                                  !.action_record = rec,
                                                  !.result = except_result(err),
                                                  !.raised = err]]
           ELSE caller' = [counted EXCEPT ![p] = [@ EXCEPT !.pc = "loaded",
                                                  !.all_actions = Append(historical_actions, rec),
                                                  !.action_record = rec,
                                                  !.result = NoResult,
                                                  !.raised = "none"]]
    /\ UNCHANGED <<actions_file, historical_actions, appended>>
    /\ UNCHANGED <<retry, historical_customer_data, queried, called, run_vars>>

\* Line 67: open the file for writing, which empties it; or the open raises
\* and the file is untouched.
RecordOpen(p, e) ==
    /\ caller[p].pc = "loaded"
    /\ IF e # "none"
       THEN /\ Return(p, caller[p].action_record, except_result(e), e)
            /\ UNCHANGED <<actions_file, historical_actions>>
       ELSE /\ caller' = [caller EXCEPT ![p].pc = "opened"]
            /\ actions_file' = "invalid"
            /\ historical_actions' = <<>>
    /\ UNCHANGED appended
    /\ UNCHANGED <<retry, historical_customer_data, queried, called, run_vars>>

\* Lines 68-76: write the list and return success; or the write raises part
\* way and leaves a file that is not valid JSON.  The list is written from
\* the start of the file: over a longer list another run has written since
\* this one opened the file, it leaves that list's tail behind it.
RecordDump(p, e) ==
    /\ caller[p].pc = "opened"
    /\ LET mine == caller[p].all_actions
           rec == caller[p].action_record
       IN  IF e # "none"
           THEN /\ Return(p, rec, except_result(e), e)
                /\ actions_file' = "invalid"
                /\ historical_actions' = <<>>
                /\ UNCHANGED appended
           ELSE /\ Return(p, rec, success_result(rec, mine), "none")
                /\ IF actions_file = "valid" /\ Len(historical_actions) > Len(mine)
                   THEN actions_file' = "invalid" /\ historical_actions' = <<>>
                   ELSE actions_file' = "valid" /\ historical_actions' = mine
                /\ appended' = Append(appended, rec)
    /\ UNCHANGED <<retry, historical_customer_data, queried, called, run_vars>>

\* No record_result call is under way.
Quiescent == \A p \in Procs : caller[p].pc = "idle"

(***************************************************************************)
(* The historical-pattern queries over data/historical_customer_data.json  *)
(***************************************************************************)
Email == <<"E", "m", "a", "i", "l">>

SMS == <<"S", "M", "S">>

\* The contents data/historical_customer_data.json may have: absent, not
\* JSON, or an object whose customer_segments lists each segment's
\* successful_actions.  A field given as <<>> is absent from its object.
DataFiles ==
    { NoDataFile,
      [file |-> "invalid", customer_segments |-> <<>>],
      [file |-> "valid", customer_segments |-> <<>>],
      [file |-> "valid", customer_segments |->
         << [name |-> "vip_customers", successful_actions |->
               << [sample_size |-> <<1>>, action |-> Email, success_rate |-> <<72>>],
                  [sample_size |-> <<100>>, action |-> SMS, success_rate |-> <<85>>] >>] >>],
      [file |-> "valid", customer_segments |->
         << [name |-> "vip_customers", successful_actions |->
               << [sample_size |-> <<>>, action |-> SMS, success_rate |-> <<>>] >>],
            [name |-> "repeat_buyers", successful_actions |-> <<>>] >>] }

\* The action_type arguments of the queries.
ActionTypes == { <<"s", "m", "s">>, <<"E", "M", "A", "I", "L">>, <<"m", "a">>,
                 <<"p", "u", "s", "h">>, <<>> }

\* The segment arguments of the queries; "" is the falsy segment.
QuerySegments == Segments \cup {"high_churn_risk", ""}

\* str.lower() on one character.
LowerChar(c) ==
    CASE c = "A" -> "a" [] c = "E" -> "e" [] c = "I" -> "i" [] c = "L" -> "l"
      [] c = "M" -> "m" [] c = "S" -> "s" [] OTHER -> c

Lower(s) == [i \in 1..Len(s) |-> LowerChar(s[i])]

\* Python's `a in b` on strings.
IsSubstring(a, b) ==
    \E i \in 0..(Len(b) - Len(a)) : SubSeq(b, i + 1, i + Len(a)) = a

HasSegment(data, segment) ==
    \E i \in 1..Len(data.customer_segments) : data.customer_segments[i].name = segment

SegmentData(data, segment) ==
    LET i == CHOOSE j \in 1..Len(data.customer_segments) :
                 data.customer_segments[j].name = segment
    IN  data.customer_segments[i].successful_actions

\* The result of query_historical_patterns(segment): its "error" entry
\* ("none" when the result has none) and the successful_actions under its
\* "data" entry (<<>> when the result has no such entry).
query_historical_patterns(data, segment) ==
    IF data.file = "missing"
    THEN [error |-> "Historical data file not found", successful_actions |-> <<>>]
    ELSE IF data.file = "invalid"
    THEN [error |-> "Error parsing historical data", successful_actions |-> <<>>]
    ELSE IF segment # ""
    THEN IF HasSegment(data, segment)
         THEN [error |-> "none", successful_actions |-> SegmentData(data, segment)]
         ELSE [error |-> "Segment not found", successful_actions |-> <<>>]
    ELSE [error |-> "none", successful_actions |-> <<>>]

\* The neutral success rate 0.5, in percent.
default_success_rate == 50

\* Variant: a failed lookup counts as a rate of zero.
get_action_success_rate_ZeroOnError(data, action_type, segment) ==
    LET segment_data == query_historical_patterns(data, segment)
        acts == segment_data.successful_actions
        hits == {i \in 1..Len(acts) : IsSubstring(Lower(action_type), Lower(acts[i].action))}
    IN  IF segment_data.error # "none" \/ hits = {} THEN 0
        ELSE LET first == CHOOSE i \in hits : \A j \in hits : i <= j
             IN  IF acts[first].success_rate = <<>> THEN default_success_rate
                 ELSE acts[first].success_rate[1]

\* The success rate in percent.
get_action_success_rate(data, action_type, segment) ==
    LET segment_data == query_historical_patterns(data, segment)
        acts == segment_data.successful_actions
        hits == {i \in 1..Len(acts) : IsSubstring(Lower(action_type), Lower(acts[i].action))}
    IN  IF segment_data.error # "none" THEN default_success_rate
        ELSE IF hits = {} THEN default_success_rate
        ELSE LET first == CHOOSE i \in hits : \A j \in hits : i <= j
             IN  IF acts[first].success_rate = <<>> THEN default_success_rate
                 ELSE acts[first].success_rate[1]

\* x.get('success_rate', 0), the key max() compares.
RateKey(x) == IF x.success_rate = <<>> THEN 0 ELSE x.success_rate[1]

get_best_performing_action(data, segment) ==
    LET segment_data == query_historical_patterns(data, segment)
        actions == segment_data.successful_actions
    IN  IF segment_data.error # "none"
        THEN [error |-> "Segment not found", sample_size |-> <<>>,
              success_rate |-> <<>>, best_action |-> <<>>]
        ELSE IF actions = <<>>
        THEN [error |-> "No historical actions found", sample_size |-> <<>>,
              success_rate |-> <<>>, best_action |-> <<>>]
        ELSE LET best == CHOOSE i \in 1..Len(actions) :
                            /\ \A j \in 1..Len(actions) : RateKey(actions[j]) <= RateKey(actions[i])
                            /\ \A j \in 1..(i - 1) : RateKey(actions[j]) < RateKey(actions[i])
             IN  [error |-> "none", sample_size |-> actions[best].sample_size,
                  success_rate |-> actions[best].success_rate,
                  best_action |-> actions[best].action]

\* The sample size the query for a segment reports; 0 when it reports none.
SampleSize(data, segment) ==
    LET best == get_best_performing_action(data, segment)
    IN  IF best.sample_size = <<>> THEN 0 ELSE best.sample_size[1]

\* The number of records of a segment in a log.
CountOf(log, segment) ==
    Cardinality({i \in 1..Len(log) : log[i].customer_segment = segment})

QueryRate(action_type, segment) ==
    /\ queried' = [action_type |-> action_type, segment |-> segment,
                   tool |-> "get_action_success_rate",
                   rate |-> get_action_success_rate(historical_customer_data, action_type, segment),
                   error |-> "none", sample_size |-> <<>>]
    /\ UNCHANGED <<retry, actions_file, historical_customer_data, caller, appended, called>>
    /\ UNCHANGED <<historical_actions, run_vars>>

QueryBest(segment) ==
    /\ LET best == get_best_performing_action(historical_customer_data, segment)
       IN  queried' = [action_type |-> <<>>, segment |-> segment,
                       tool |-> "get_best_performing_action",
                       rate |-> IF best.success_rate = <<>> THEN -1 ELSE best.success_rate[1],
                       error |-> best.error, sample_size |-> best.sample_size]
    /\ UNCHANGED <<retry, actions_file, historical_customer_data, caller, appended, called>>
    /\ UNCHANGED <<historical_actions, run_vars>>

(***************************************************************************)
(* Two runs recording into one data directory, and the queries             *)
(***************************************************************************)
StoreInit ==
    /\ run = "not_started"
    /\ status = [a \in Leaves |-> "idle"]
    /\ state = [k \in Keys |-> "unset"]
    /\ events = <<>>
    /\ observed = [a \in Leaves |-> {}]
    /\ tool_confirmation = <<>>
    /\ requested = 0
    /\ gate_results = <<>>
    /\ decisions = <<>>
    /\ report = [outcome |-> "none", cause |-> "none"]
    /\ failure = [cause |-> "none", stage |-> "none"]
    /\ trace = <<>>
    /\ retry = RetryStart
    /\ historical_actions = <<>>
    /\ actions_file \in {"missing", "valid"}
    /\ historical_customer_data \in DataFiles
    /\ caller = [p \in Procs |-> CallerIdle]
    /\ queried = NotQueried
    /\ appended = <<>>
    /\ called = NotCalled

StoreNext ==
    \E p \in Procs :
       \/ \E segment \in Segments, action_status \in ActionStatuses, e \in IOErrors :
               RecordLoad(p, Args(p, segment, action_status), e)
       \/ \E e \in IOErrors : RecordOpen(p, e)
       \/ \E e \in IOErrors : RecordDump(p, e)

StoreSpec == StoreInit /\ [][StoreNext]_vars

QueryNext ==
    \/ \E action_type \in ActionTypes, segment \in QuerySegments :
          QueryRate(action_type, segment)
    \/ \E segment \in QuerySegments : QueryBest(segment)

QuerySpec == StoreInit /\ [][QueryNext]_vars

(***************************************************************************)
(* find_similar_customer_segment                                           *)
(***************************************************************************)
\* An attribute of a JSON object: absent, null, or a value.
Absent == [has |-> "absent", val |-> 0]

Null == [has |-> "null", val |-> 0]

Val(v) == [has |-> "value", val |-> v]

\* The customer_profile_json arguments: a string that is not JSON, JSON that
\* is not an object (a list, a number, null), or an object with each of the
\* five attributes absent, null or set.
ProfileInputs ==
    { [kind |-> "invalid_json", profile |-> <<>>],
      [kind |-> "not_object", profile |-> <<>>] }
    \cup
    { [kind |-> "object",
       profile |-> << [segment |-> sg, cart_status |-> cs, churn_risk |-> cr,
                       total_orders |-> ord, days_since_last_purchase |-> days] >>] :
        cs \in {Absent, Val("abandoned"), Val("active")},
        sg \in {Absent, Val("vip"), Val("medium_value")},
        cr \in {Absent, Val("high"), Val("low")},
        ord \in {Absent, Null, Val(0), Val(2), Val(3)},
        days \in {Absent, Null, Val(30), Val(60), Val(61)} }

\* dict.get(key, default): the default replaces an absent key only.
Get(attr, default) == IF attr.has = "absent" THEN Val(default) ELSE attr

\* The profile {} that an unparseable string is replaced with.
EmptyProfile ==
    [segment |-> Absent, cart_status |-> Absent, churn_risk |-> Absent,
     total_orders |-> Absent, days_since_last_purchase |-> Absent]

\* x == v for an attribute x: None equals no value.
Is(x, v) == x.has = "value" /\ x.val = v

\* Variant: the vip rule is tried before the cart rule.
matched_segment_VipFirst(customer_profile) ==
    LET churn_risk == Get(customer_profile.churn_risk, "low")
        cart_status == Get(customer_profile.cart_status, "empty")
        segment == Get(customer_profile.segment, "medium_value")
        total_orders == Get(customer_profile.total_orders, 0)
        days_since_purchase == Get(customer_profile.days_since_last_purchase, 0)
    IN  IF Is(segment, "vip") THEN "vip_customers"
        ELSE IF Is(cart_status, "abandoned") THEN "price_sensitive_cart_abandoners"
        ELSE IF Is(churn_risk, "high") THEN "high_churn_risk"
        ELSE IF days_since_purchase.has = "null" THEN "TypeError"
        ELSE IF days_since_purchase.val > 60 THEN "high_churn_risk"
        ELSE IF total_orders.has = "null" THEN "TypeError"
        ELSE IF total_orders.val = 0 THEN "first_time_browsers"
        ELSE IF total_orders.val >= 3 THEN "repeat_buyers"
        ELSE "first_time_browsers"

\* Lines 78-96: the segment the if/elif chain selects, or "TypeError" when a
\* comparison of None with a number raises.
matched_segment(customer_profile) ==
    LET churn_risk == Get(customer_profile.churn_risk, "low")
        cart_status == Get(customer_profile.cart_status, "empty")
        segment == Get(customer_profile.segment, "medium_value")
        total_orders == Get(customer_profile.total_orders, 0)
        days_since_purchase == Get(customer_profile.days_since_last_purchase, 0)
    IN  IF Is(cart_status, "abandoned") THEN "price_sensitive_cart_abandoners"
        ELSE IF Is(segment, "vip") THEN "vip_customers"
        ELSE IF Is(churn_risk, "high") THEN "high_churn_risk"
        ELSE IF days_since_purchase.has = "null" THEN "TypeError"
        ELSE IF days_since_purchase.val > 60 THEN "high_churn_risk"
        ELSE IF Is(total_orders, 0) THEN "first_time_browsers"
        ELSE IF total_orders.has = "null" THEN "TypeError"
        ELSE IF total_orders.val >= 3 THEN "repeat_buyers"
        ELSE "first_time_browsers"

\* What the call returns, or what it raises: JSON that is not an object has
\* no get(), and the except clause covers only a failed parse.
find_similar_customer_segment(data, input) ==
    IF input.kind = "not_object"
    THEN [raised |-> "AttributeError", segment_data |-> <<>>, matched_segment |-> "none"]
    ELSE LET customer_profile == IF input.kind = "object" THEN input.profile[1]
                                 ELSE EmptyProfile
             matched == matched_segment(customer_profile)
         IN  IF matched = "TypeError"
             THEN [raised |-> "TypeError", segment_data |-> <<>>, matched_segment |-> "none"]
             ELSE [raised |-> "none", segment_data |-> query_historical_patterns(data, matched).successful_actions,
                   matched_segment |-> matched]

FindSegment(input) ==
    /\ called = NotCalled
    /\ LET result == find_similar_customer_segment(historical_customer_data, input)
       IN  called' = [raised |-> result.raised, tool |-> "find_similar_customer_segment",
                      segment_data |-> result.segment_data, matched_segment |-> result.matched_segment,
                      input |-> input]
    /\ UNCHANGED <<retry, actions_file, historical_customer_data, caller, appended, queried>>
    /\ UNCHANGED <<historical_actions, run_vars>>

(***************************************************************************)
(* business_rules_tool: check_*_rules, validate_action and the batch       *)
(***************************************************************************)
\* Actions in one validate_actions_batch call.
MaxActions == 2

\* Amounts are in cents.
MAX_SPEND_PER_CUSTOMER_PER_MONTH == 1000

TOTAL_MONTHLY_BUDGET == 5000000

CURRENT_MONTH_SPEND == 2345000

\* data/product_catalog.json: absent, not JSON, or a list of products.
Catalogs ==
    { [file |-> "missing", products |-> <<>>],
      [file |-> "invalid", products |-> <<>>],
      [file |-> "valid", products |-> << [product_id |-> "P1", stock_quantity |-> 5],
                                         [product_id |-> "P2", stock_quantity |-> 0] >>] }

\* The action dictionaries: each key absent, null or set.
ActionInputs ==
    { [channel |-> ch, product_id |-> pr, action_id |-> id] :
        id \in {Absent, Val("A1"), Val("A2")},
        ch \in {Absent, Val("SMS"), Val("push")},
        pr \in {Absent, Null, Val("P1"), Val("P9")} }

RECURSIVE SeqsUpTo(_, _)
\* The sequences over S of length at most n.
SeqsUpTo(S, n) ==
    IF n = 0 THEN {<<>>}
    ELSE LET shorter == SeqsUpTo(S, n - 1)
         IN  shorter \cup {Append(s, x) : s \in {t \in shorter : Len(t) = n - 1}, x \in S}

\* The action_cost arguments given to check_budget_rules.
Costs == {-100, 0, 5, 999, 1000, 1001, 2654999, 2655000, 2655001, 5000000}

\* Lines 38-75.  product_id is the argument given: null or a value.
check_inventory_rules(catalog, product_id) ==
    IF product_id.has # "value"
    THEN [message |-> "No product check required", valid |-> TRUE]
    ELSE IF catalog.file = "missing"
    THEN [message |-> "Product catalog not found, assuming available", valid |-> TRUE]
    ELSE IF catalog.file = "invalid"
    THEN [message |-> "JSONDecodeError", valid |-> FALSE]
    ELSE LET found == {i \in 1..Len(catalog.products) :
                          catalog.products[i].product_id = product_id.val}
         IN  IF found = {}
             THEN [message |-> "Product not found", valid |-> FALSE]
             ELSE LET product == catalog.products[CHOOSE i \in found : \A j \in found : i <= j]
                  IN  IF product.stock_quantity > 0
                      THEN [message |-> "Product in stock", valid |-> TRUE]
                      ELSE [message |-> "Product out of stock", valid |-> FALSE]

\* Variant: a cost equal to the per-customer limit is refused.
check_budget_rules_LimitExcluded(action_cost) ==
    LET remaining_budget == TOTAL_MONTHLY_BUDGET - CURRENT_MONTH_SPEND
    IN  IF action_cost >= MAX_SPEND_PER_CUSTOMER_PER_MONTH
        THEN [message |-> "Action cost exceeds per-customer limit", valid |-> FALSE]
        ELSE IF action_cost > remaining_budget
        THEN [message |-> "Insufficient budget", valid |-> FALSE]
        ELSE [message |-> "Within budget", valid |-> TRUE]

check_budget_rules(action_cost) ==
    LET remaining_budget == TOTAL_MONTHLY_BUDGET - CURRENT_MONTH_SPEND
    IN  IF action_cost > MAX_SPEND_PER_CUSTOMER_PER_MONTH
        THEN [message |-> "Action cost exceeds per-customer limit", valid |-> FALSE]
        ELSE IF action_cost > remaining_budget
        THEN [message |-> "Insufficient budget", valid |-> FALSE]
        ELSE [message |-> "Within budget", valid |-> TRUE]

\* str.lower() on a channel name.
LowerName(channel) ==
    CASE channel = "SMS" -> "sms" [] channel = "EMAIL" -> "email" [] OTHER -> channel

\* CHANNEL_PERMISSIONS.get(name, False)
HasPermission(name) == name \in {"email", "sms"}

\* channel is action.get('channel'): absent and null are both None.
check_permission_rules(channel) ==
    IF channel.has # "value"
    THEN [message |-> "No channel specified", valid |-> TRUE]
    ELSE IF HasPermission(LowerName(channel.val))
    THEN [message |-> "Customer has opted in", valid |-> TRUE]
    ELSE [message |-> "Customer has not opted in", valid |-> FALSE]

\* channel_costs.get(action.get('channel', 'email'), 0.05), in cents.
ChannelCost(channel) ==
    LET name == IF channel.has = "absent" THEN "email"
                ELSE IF channel.has = "null" THEN "None" ELSE channel.val
    IN  CASE name = "email" -> 5 [] name = "sms" -> 15 [] name = "push" -> 2
          [] name = "whatsapp" -> 10 [] OTHER -> 5

\* The checks validate_action makes for an action, in order.
Validations(catalog, action) ==
    (IF action.product_id.has # "absent"
     THEN << check_inventory_rules(catalog, action.product_id) >> ELSE << >>)
    \o << check_budget_rules(ChannelCost(action.channel)),
          check_permission_rules(action.channel) >>

\* validate_action raises when reading the catalog raises.
Raises(catalog, action) ==
    /\ action.product_id.has = "value"
    /\ catalog.file = "invalid"

overall_valid(catalog, action) ==
    \A i \in 1..Len(Validations(catalog, action)) : Validations(catalog, action)[i].valid

action_id(action) == IF action.action_id.has = "absent" THEN "unknown"
                     ELSE IF action.action_id.has = "null" THEN "None"
                     ELSE action.action_id.val

RECURSIVE validate_actions_batch_PassedOnly(_, _)
\* Variant: an action that fails validation is left out of both lists.
validate_actions_batch_PassedOnly(catalog, actions) ==
    IF actions = << >>
    THEN [raised |-> "none", passed_action_ids |-> << >>, failed_action_ids |-> << >>]
    ELSE LET n == Len(actions)
             before == validate_actions_batch_PassedOnly(catalog, SubSeq(actions, 1, n - 1))
             action == actions[n]
         IN  IF before.raised # "none" \/ Raises(catalog, action)
             THEN [raised |-> "JSONDecodeError", passed_action_ids |-> << >>,
                   failed_action_ids |-> << >>]
             ELSE IF overall_valid(catalog, action)
             THEN [before EXCEPT !.passed_action_ids = Append(@, action_id(action))]
             ELSE before

RECURSIVE validate_actions_batch(_, _)
\* The loop of lines 193-205 over the actions in order; a raise inside
\* validate_action ends the call without a result.
validate_actions_batch(catalog, actions) ==
    IF actions = << >>
    THEN [raised |-> "none", passed_action_ids |-> << >>, failed_action_ids |-> << >>]
    ELSE LET n == Len(actions)
             before == validate_actions_batch(catalog, SubSeq(actions, 1, n - 1))
             action == actions[n]
         IN  IF before.raised # "none" \/ Raises(catalog, action)
             THEN [raised |-> "JSONDecodeError", passed_action_ids |-> << >>,
                   failed_action_ids |-> << >>]
             ELSE IF overall_valid(catalog, action)
             THEN [before EXCEPT !.passed_action_ids = Append(@, action_id(action))]
             ELSE [before EXCEPT !.failed_action_ids = Append(@, action_id(action))]

ValidateBatch(catalog, actions) ==
    /\ called = NotCalled
    /\ LET result == validate_actions_batch(catalog, actions)
       IN  called' = [raised |-> result.raised, tool |-> "validate_actions_batch",
                      actions |-> actions, catalog |-> catalog,
                      passed_action_ids |-> result.passed_action_ids,
                      failed_action_ids |-> result.failed_action_ids]
    /\ UNCHANGED <<retry, actions_file, historical_customer_data, caller, appended, queried>>
    /\ UNCHANGED <<historical_actions, run_vars>>

CheckBudget(action_cost) ==
    /\ called = NotCalled
    /\ LET result == check_budget_rules(action_cost)
       IN  called' = [message |-> result.message, tool |-> "check_budget_rules",
                      valid |-> result.valid, action_cost |-> action_cost]
    /\ UNCHANGED <<retry, actions_file, historical_customer_data, caller, appended, queried>>
    /\ UNCHANGED <<historical_actions, run_vars>>

(***************************************************************************)
(* timing_intelligence_tool: get_optimal_send_time and calculate_send_time *)
(***************************************************************************)
\* A datetime: the day counted from the first day of the model, and the time
\* of day.  The seconds stand for everything below the minute.
At(day, hour, minute, second) ==
    [day |-> day, hour |-> hour, minute |-> minute, second |-> second]

SecondsOf(t) == ((t.day * 24 + t.hour) * 60 + t.minute) * 60 + t.second

\* The from_time arguments: none (or a string that is no ISO time), or a time.
FromTimes ==
    {Absent} \cup {Val(At(0, hour, minute, second)) :
                      hour \in {9, 19, 23}, minute \in {0, 30}, second \in {0, 30}}

\* What datetime.now() reads in calculate_send_time.
Now == At(0, 12, 15, 10)

\* A slot of best_send_times_*: start is <<hour, minute>>, or <<>> when the
\* slot gives none.  An hour of 25 is a start that is no time of day.
Slot(name, start, conversion_rate) ==
    [name |-> name, start |-> start, conversion_rate |-> conversion_rate]

\* data/timing_intelligence.json: absent, or an object with channel_timing.
TimingFiles ==
    { [file |-> "missing", channel_timing |-> <<>>],
      [file |-> "valid", channel_timing |->
         << [channel |-> "email",
             best_send_times_weekday |-> << Slot("morning", <<9, 30>>, 3),
                                            Slot("evening", <<19, 0>>, 5) >>,
             best_send_times_weekend |-> << Slot("late", <<23, 30>>, 4) >>],
            [channel |-> "sms",
             best_send_times_weekday |-> << >>,
             best_send_times_weekend |-> << Slot("open", << >>, 2),
                                            Slot("night", <<25, 0>>, 1) >>] >>] }

Channels == {"email", "SMS", "push"}

Urgencies == {"very_high", "high", "medium", "low"}

NoTiming(recommended_timing) ==
    [start |-> << >>, recommended_timing |-> recommended_timing, time_range |-> ""]

\* Lines 58-114.  time_range is "" when the result has none and "start - end"
\* when it has one; start is then the slot's start.
get_optimal_send_time(timing_data, channel, urgency, is_weekend) ==
    IF timing_data.file = "missing" THEN NoTiming("none")
    ELSE IF urgency = "very_high" THEN NoTiming("immediate")
    ELSE IF urgency = "high" THEN NoTiming("within_1_hour")
    ELSE LET found == {i \in 1..Len(timing_data.channel_timing) :
                          timing_data.channel_timing[i].channel = LowerName(channel)}
         IN  IF found = {} THEN NoTiming("default_business_hours")
             ELSE LET channel_timing == timing_data.channel_timing[CHOOSE i \in found : TRUE]
                      best_times == IF is_weekend THEN channel_timing.best_send_times_weekend
                                    ELSE channel_timing.best_send_times_weekday
                  IN  IF best_times = << >> THEN NoTiming("default")
                      ELSE LET best == CHOOSE i \in 1..Len(best_times) :
                                  /\ \A j \in 1..Len(best_times) :
                                        best_times[j].conversion_rate <= best_times[i].conversion_rate
                                  /\ \A j \in 1..(i - 1) :
                                        best_times[j].conversion_rate < best_times[i].conversion_rate
                           IN  [start |-> best_times[best].start,
                                recommended_timing |-> best_times[best].name,
                                time_range |-> "start - end"]

\* Lines 211-252, as seconds.
calculate_send_time(timing_data, channel, urgency, from_time, is_weekend) ==
    LET from_time_dt == IF from_time.has = "value" THEN from_time.val ELSE Now
        timing_rec == get_optimal_send_time(timing_data, channel, urgency, is_weekend)
        start == timing_rec.start
        parsed == start # << >> /\ start[1] \in 0..23 /\ start[2] \in 0..59
        send_time == SecondsOf(At(from_time_dt.day, start[1], start[2], 0))
    IN  IF timing_rec.recommended_timing = "immediate" THEN SecondsOf(from_time_dt)
        ELSE IF timing_rec.recommended_timing = "within_1_hour"
        THEN SecondsOf(from_time_dt) + 30 * 60
        ELSE IF timing_rec.time_range # "" /\ parsed
        THEN IF send_time < SecondsOf(from_time_dt) THEN send_time + 24 * 60 * 60
             ELSE send_time
        ELSE SecondsOf(from_time_dt) + 2 * 60 * 60

CalculateSendTime(timing_data, channel, urgency, from_time, is_weekend) ==
    /\ called = NotCalled
    /\ called' = [channel |-> channel, tool |-> "calculate_send_time",
                  timing_data |-> timing_data, urgency |-> urgency,
                  is_weekend |-> is_weekend,
                  from_time_dt |-> IF from_time.has = "value" THEN from_time.val ELSE Now,
                  send_time |-> calculate_send_time(timing_data, channel, urgency,
                                                    from_time, is_weekend)]
    /\ UNCHANGED <<retry, actions_file, historical_customer_data, caller, appended, queried>>
    /\ UNCHANGED <<historical_actions, run_vars>>

(***************************************************************************)
(* The stateless tools, called with every argument                         *)
(***************************************************************************)
\* Each behaviour is one call of one tool from the state the files are in.
ToolNext ==
    \/ \E input \in ProfileInputs : FindSegment(input)
    \/ \E catalog \in Catalogs, actions \in SeqsUpTo(ActionInputs, MaxActions) :
          ValidateBatch(catalog, actions)
    \/ \E action_cost \in Costs : CheckBudget(action_cost)
    \/ \E timing_data \in TimingFiles, channel \in Channels, urgency \in Urgencies,
          from_time \in FromTimes, is_weekend \in BOOLEAN :
            CalculateSendTime(timing_data, channel, urgency, from_time, is_weekend)

ToolSpec == StoreInit /\ [][ToolNext]_vars

(***************************************************************************)
(* Properties                                                              *)
(***************************************************************************)
\* C1: in every Sequential node (DiscoveryCluster, ExecutionCluster and the
\* top-level NbaOrchestrator) a child begins only after every child declared
\* before it has ended, so children are visited in their declared order.
C1_SequentialOrder ==
    LET EndedBefore(a, p) == \E q \in 1..(p - 1) : trace[q] = <<"end", a>>
        BeginsAt(p, as) == trace[p][1] = "begin" /\ trace[p][2] \in as
    IN  /\ \A c \in Clusters :
             Kind(c) = "Sequential" =>
               \A i, j \in 1..Len(sub_agents(c)) :
                 i < j => \A p \in 1..Len(trace) :
                            BeginsAt(p, {sub_agents(c)[j]}) => EndedBefore(sub_agents(c)[i], p)
        /\ Kind("NbaOrchestrator") = "Sequential" =>
             \A i, j \in 1..Len(nba_orchestrator) :
               i < j => \A p \in 1..Len(trace) :
                          BeginsAt(p, Range(sub_agents(nba_orchestrator[j]))) =>
                            \A a \in Range(sub_agents(nba_orchestrator[i])) : EndedBefore(a, p)

\* Every leaf of the tree has begun and ended.
C1_Witness ==
    /\ Len(trace) = 2 * Cardinality(Leaves)
    /\ trace[Len(trace)] = <<"end", "ResultsTrackerAgent">>

\* C2: the pipeline is Sequential[Sequential, Parallel, Sequential] and the
\* join is a barrier: no execution stage has begun unless both validation
\* stages are done, and no validation stage has begun unless all four
\* discovery stages are done.
C2_ParallelBarrier ==
    /\ Kind("NbaOrchestrator") = "Sequential"
    /\ <<Kind(nba_orchestrator[1]), Kind(nba_orchestrator[2]), Kind(nba_orchestrator[3])>>
         = <<"Sequential", "Parallel", "Sequential">>
    /\ \A e \in Range(cluster_3_execution) :
         status[e] # "idle" => \A v \in Range(cluster_2_validation) : status[v] = "done"
    /\ \A v \in Range(cluster_2_validation) :
         status[v] # "idle" => \A d \in Range(cluster_1_discovery) : status[d] = "done"

\* The first execution stage runs, the scorer having finished before the validator.
C2_Witness ==
    /\ status["TimingAgent"] = "running"
    /\ \E p, q \in 1..Len(trace) :
         p < q /\ trace[p] = <<"end", "ScorerAgent">> /\ trace[q] = <<"end", "ValidatorAgent">>

C5_AllOrNothing ==
    failure.stage \in Range(cluster_2_validation) =>
      /\ run = "failed"
      /\ report.outcome = "ERROR"
      /\ \A v \in Range(cluster_2_validation) : state[output_key(v)] = "unset"

\* C6: the human's answer is recorded at most once, and every result
\* request_human_approval returns after it carries that same decision.
C6_DecisionIdempotent ==
    /\ Len(decisions) <= 1
    /\ decisions = <<>> => tool_confirmation = <<>>
    /\ decisions # <<>> =>
         /\ tool_confirmation = <<decisions[1].confirmed>>
         /\ \A i \in (decisions[1].after_calls + 1)..Len(gate_results) :
              gate_results[i].status =
                (IF decisions[1].confirmed THEN "approved" ELSE "rejected")

\* A rejection has been read back twice.
C6_Witness ==
    /\ decisions # <<>>
    /\ ~decisions[1].confirmed
    /\ Len(gate_results) >= decisions[1].after_calls + 2

\* C7: over the calls of request_human_approval in one run the confirmation
\* request is issued at most once, and never once a decision is present.
C7_RequestIssuedOnce ==
    /\ requested <= 1
    /\ decisions # <<>> =>
         \A i \in (decisions[1].after_calls + 1)..Len(gate_results) :
           ~gate_results[i].request_confirmation

C14_WriteOnce ==
    /\ \A a, b \in Leaves : a # b => output_key(a) # output_key(b)
    /\ Cardinality(Keys) = 10
    /\ \A i, j \in 1..Len(events) :
         events[i].key = events[j].key => (i = j /\ events[i].author = events[j].author)
    /\ \A k \in Keys :
         state[k] # "unset" => Cardinality({i \in 1..Len(events) : events[i].key = k}) = 1

\* All ten keys are written, the two parallel branches included.
C14_Witness ==
    /\ Len(events) = 10
    /\ \A k \in Keys : state[k] # "unset"
    /\ run = "running"

C15_AppendOnlyLog ==
    Quiescent =>
      /\ actions_file # "invalid"
      /\ historical_actions = appended

\* C16: append is monotonic with respect to queries: the sample size the
\* historical-pattern query reports for a segment is at least the number of
\* records appended for that segment by calls that returned success.
C16_AppendMonotonic ==
    Quiescent =>
      \A s \in Segments :
         SampleSize(historical_customer_data, s) >= CountOf(appended, s)

\* C17: the aggregate returned for a segment is a function of the action
\* log alone: whatever data file a store holding this same log has, the
\* query returns the same aggregate.
C17_RecomputableFromLog ==
    (Quiescent /\ historical_actions # <<>>) =>
      \A d \in DataFiles, s \in Segments :
         get_best_performing_action(d, s) =
            get_best_performing_action(historical_customer_data, s)

\* C18: appends from concurrent runs are serialized: when every
\* record_result call made so far has returned success, the stored log
\* contains the record of each of them.
C18_ConcurrentAppendsKept ==
    (Quiescent /\ Len(appended) = Calls) =>
      \A i \in 1..Len(appended) :
         \E j \in 1..Len(historical_actions) : historical_actions[j] = appended[i]

\* C19: append never fails silently: when the read or the write raised,
\* record_result has returned a result with status "error" whose message
\* carries what was raised, a result with status "success" is returned only
\* when nothing was raised, and the run is not failed by it.
C19_NeverSilent ==
    /\ \A p \in Procs :
          /\ caller[p].raised # "none" =>
               /\ caller[p].pc = "idle"
               /\ caller[p].result.status = "error"
               /\ caller[p].result.message = <<"Failed to record action: ", caller[p].raised>>
          /\ caller[p].result.status = "success" => caller[p].raised = "none"
    /\ run # "failed"
    /\ report.outcome # "ERROR"

\* The write of the log has raised and the call has returned the error.
C19_Witness ==
    \E p \in Procs :
       /\ caller[p].raised = "OSError"
       /\ caller[p].result.status = "error"
       /\ actions_file = "invalid"
       /\ Len(appended) >= 1

\* C20: get_action_success_rate returns the neutral rate 0.5 whenever the
\* data file cannot be read, the segment is not in it, or none of the
\* segment's actions matches the requested action type.
C20_NeutralDefault ==
    queried.tool = "get_action_success_rate" =>
      LET data == historical_customer_data
          known == data.file = "valid" /\ HasSegment(data, queried.segment)
          NoMatch == \A i \in 1..Len(SegmentData(data, queried.segment)) :
                        ~IsSubstring(Lower(queried.action_type),
                                     Lower(SegmentData(data, queried.segment)[i].action))
      IN  (~known \/ NoMatch) => queried.rate = 50

\* A known segment with recorded actions has been asked for an action type
\* none of them matches, and the neutral rate came back.
C20_Witness ==
    /\ queried.tool = "get_action_success_rate"
    /\ historical_customer_data.file = "valid"
    /\ queried.segment = "vip_customers"
    /\ HasSegment(historical_customer_data, "vip_customers")
    /\ Len(SegmentData(historical_customer_data, "vip_customers")) = 2
    /\ queried.action_type = <<"p", "u", "s", "h">>
    /\ queried.rate = 50

\* C21: whenever find_similar_customer_segment returns for a profile, the
\* key is the one of the first rule that matches in the order cart
\* abandoned, vip segment, churn high or more than 60 days since purchase,
\* no orders, 3 or more orders, default; it is never more than one key, and
\* an abandoned cart with segment vip gives price_sensitive_cart_abandoners.
C21_PriorityOrder ==
    (called.tool = "find_similar_customer_segment" /\ called.raised = "none"
       /\ called.input.kind = "object") =>
      LET p == called.input.profile[1]
          days == p.days_since_last_purchase
          orders == p.total_orders
          cart == Is(p.cart_status, "abandoned")
          vip == Is(p.segment, "vip")
          churn == Is(p.churn_risk, "high") \/ (days.has = "value" /\ days.val > 60)
          zero == orders.has = "absent" \/ Is(orders, 0)
          repeat == orders.has = "value" /\ orders.val >= 3
      IN  called.matched_segment =
            (IF cart THEN "price_sensitive_cart_abandoners"
             ELSE IF vip THEN "vip_customers"
             ELSE IF churn THEN "high_churn_risk"
             ELSE IF zero THEN "first_time_browsers"
             ELSE IF repeat THEN "repeat_buyers"
             ELSE "first_time_browsers")

\* A vip profile with an abandoned cart has been matched.
C21_Witness ==
    /\ called.tool = "find_similar_customer_segment"
    /\ called.input.kind = "object"
    /\ Is(called.input.profile[1].cart_status, "abandoned")
    /\ Is(called.input.profile[1].segment, "vip")
    /\ called.matched_segment = "price_sensitive_cart_abandoners"

\* C26: find_similar_customer_segment is total: for every input it returns
\* one of the five keys, and an unparseable or empty profile and a profile
\* with 1 or 2 orders that matches no higher rule get first_time_browsers.
C26_Total ==
    called.tool = "find_similar_customer_segment" =>
      /\ called.raised = "none"
      /\ called.matched_segment \in
           {"price_sensitive_cart_abandoners", "vip_customers", "high_churn_risk",
            "first_time_browsers", "repeat_buyers"}
      /\ (called.input.kind = "invalid_json") => called.matched_segment = "first_time_browsers"
      /\ (called.input.kind = "object" /\ called.input.profile[1] = EmptyProfile) =>
           called.matched_segment = "first_time_browsers"

\* C25: when record_result has returned status "error", the stored log is
\* exactly as it was before the call (stated of a run that is the only one
\* to have called, so that nothing else has written in between).
C25_ErrorLeavesLog ==
    \A p \in Procs :
       (/\ caller[p].pc = "idle"
        /\ caller[p].result.status = "error"
        /\ \A q \in Procs \ {p} : caller[q].calls = 0) =>
          /\ actions_file = caller[p].before.file
          /\ historical_actions = caller[p].before.log

\* The record's fields that record_result is given as arguments, under the
\* names the record gives them.
ArgFields(args) ==
    [customer_id |-> args.customer_id, customer_segment |-> args.segment,
     scenario_type |-> args.scenario, action_type |-> args.action_type,
     channel |-> args.channel, estimated_cost |-> args.estimated_cost,
     predicted_roi |-> args.predicted_roi, action_status |-> args.action_status]

\* A record without the fields named.
Without(rec, names) == [f \in DOMAIN rec \ names |-> rec[f]]

ApprovedByRule(rec) ==
    /\ rec.approved_by = "human" <=> rec.action_status = "scheduled"
    /\ rec.approved_by = "rejected" <=> rec.action_status # "scheduled"

C28_BatchPartition ==
    (called.tool = "validate_actions_batch" /\ called.raised = "none") =>
      LET actions == called.actions
          n == Len(actions)
          AllValid(i) == \A k \in 1..Len(Validations(called.catalog, actions[i])) :
                            Validations(called.catalog, actions[i])[k].valid
          Passing == {i \in 1..n : AllValid(i)}
          Failing == (1..n) \ Passing
          Nth(S, k) == CHOOSE i \in S : Cardinality({j \in S : j <= i}) = k
          IdsOf(S) == [k \in 1..Cardinality(S) |-> action_id(actions[Nth(S, k)])]
      IN  /\ called.passed_action_ids = IdsOf(Passing)
          /\ called.failed_action_ids = IdsOf(Failing)
          /\ Len(called.passed_action_ids) + Len(called.failed_action_ids) = n

\* Two actions with the same id, the first passing and the second failing.
C28_Witness ==
    /\ called.tool = "validate_actions_batch"
    /\ Len(called.actions) = 2
    /\ called.passed_action_ids = <<"A1">>
    /\ called.failed_action_ids = <<"A1">>

\* C29: check_budget_rules returns valid exactly when action_cost is at most
\* the per-customer limit of 10 (1000 cents), and never the "Insufficient
\* budget" outcome.
C29_BudgetLimit ==
    called.tool = "check_budget_rules" =>
      /\ called.valid <=> called.action_cost <= 1000
      /\ called.message # "Insufficient budget"
      /\ 5000000 - 2345000 > 1000

\* A cost above the whole remaining budget has been refused for the
\* per-customer limit.
C29_Witness ==
    /\ called.tool = "check_budget_rules"
    /\ called.action_cost = 2655001
    /\ ~called.valid
    /\ called.message = "Action cost exceeds per-customer limit"

\* C30: calculate_send_time never schedules in the past: the time returned
\* is not earlier than from_time; it is from_time for urgency very_high,
\* from_time plus 30 minutes for urgency high, and otherwise the next
\* occurrence of the best slot's start or from_time plus 2 hours.
C30_SendTime ==
    called.tool = "calculate_send_time" =>
      LET from == SecondsOf(called.from_time_dt)
          StartsOfDay(day) ==
             {SecondsOf(At(day, hour, minute, 0)) : hour \in 0..23, minute \in {0, 30}}
          NextOccurrences == {t \in StartsOfDay(0) \cup StartsOfDay(1) :
                                 t >= from /\ t < from + 24 * 60 * 60 + 60}
      IN  /\ called.send_time >= from
          /\ called.urgency = "very_high" => called.send_time = from
          /\ called.urgency = "high" => called.send_time = from + 30 * 60
          /\ called.urgency \notin {"very_high", "high"} =>
               \/ called.send_time \in NextOccurrences
               \/ called.send_time = from + 2 * 60 * 60

\* What the pattern-matching stage of a run starting now reads from the
\* historical store, segment by segment.
PatternView ==
    [s \in Segments |-> query_historical_patterns(historical_customer_data, s)]

\* In a run, the pattern matcher has ended before the tracker begins.
ReadPrecedesAppend ==
    \A q \in 1..Len(trace) :
       trace[q] = <<"begin", "ResultsTrackerAgent">> =>
         \E p \in 1..(q - 1) : trace[p] = <<"end", "PatternMatcherAgent">>

\* C22: the learning loop closes across runs and not within one: in a run
\* the pattern matcher's read precedes that run's tracker append, and a
\* record a tracker has appended is visible to the pattern-matching stage of
\* the runs that start afterwards, so what that stage reads is no longer
\* what it read before the append.
C22_LoopClosesAcrossRuns ==
    /\ []ReadPrecedesAppend
    /\ [][appended' # appended => PatternView' # PatternView]_vars


\* C24: a rejection is not a failure of the run.  Once agent 8 has stored
\* either decision the tracker is the stage that can begin, the only stage
\* whose failure can still end the run is a model call of the tracker, and
\* the tracker, once done, has recorded the action exactly once: as
\* "scheduled" after an approval and as "cancelled" after a rejection.
DecisionStored == state["approval_status"] \in {"APPROVED", "REJECTED"}

ResumedWithDecision ==
    /\ run = "running"
    /\ status["HumanApprovalAgent"] = "running"
    /\ tool_confirmation # <<>>
    /\ Len(gate_results) < MaxCalls

TrackerReachedAndEnded ==
    /\ status["ResultsTrackerAgent"] = "done"
    /\ run = "complete"

C23_SuspendedRunEnds ==
    /\ (run = "suspended") ~> (run = "running")
    /\ ResumedWithDecision ~> TrackerReachedAndEnded

====
